---- MODULE Spec2Model ----
(***************************************************************************)
(* chart.py: synthesize per-segment purchase amounts, cap each segment at  *)
(* its 0.995 quantile, draw one box per segment and save chart.png.        *)
(*                                                                         *)
(* Amounts are exact rationals held as integers in units of 1/QDen dollar  *)
(* (QDen = 200, the denominator of 0.995 = 199/200), so that the linearly  *)
(* interpolated quantile of whole-dollar draws is an integer again.        *)
(* Lengths on the figure are held in tenths of an inch.                    *)
(***************************************************************************)
EXTENDS Integers, Sequences, FiniteSets, TLC

(* ---- bounds of the model ---- *)
\* the random stream that seed 42 fixes is unknown to the model: it is one of
\* the streams 0..MaxStream, chosen once and for all in Init
MaxStream == 3
\* operating-system entropy available to the process (what an unseeded
\* default_rng() would read); values 0..MaxEntropy
MaxEntropy == 1
\* lognormal draws are whole dollars in 1..(LogMax + mean \div 10)
LogMax == 2
\* normal draws are whole dollars in loc-NoiseMax .. loc+NoiseMax
NoiseMax == 2
\* the artists' tight bounding box differs from the figure by at most
\* MaxBleed tenths of an inch in each dimension
MaxBleed == 2

(* ---- program constants ---- *)
Seed == 42
NValue == 400
NMid == 400
NPremium == 350
NVIP == 250
OutlierDivisor == 50
NoiseScale == 5
\* 0.995 = QNum / QDen
QNum == 199
QDen == 200
\* plt.figure(figsize=(8, 8)), in tenths of an inch
FigSide == 80
SaveDpi == 64
\* savefig's default pad_inches = 0.1, in tenths of an inch
PadInches == 1

\* one dollar in the model's unit
Dollar == QDen

\* mu in tenths, sigma in hundredths
segments ==
    << [name |-> "Value",   mu |-> 32, sigma |-> 55, n |-> NValue],
       [name |-> "Mid",     mu |-> 38, sigma |-> 50, n |-> NMid],
       [name |-> "Premium", mu |-> 43, sigma |-> 45, n |-> NPremium],
       [name |-> "VIP",     mu |-> 48, sigma |-> 40, n |-> NVIP] >>

order == << "Value", "Mid", "Premium", "VIP" >>

VARIABLES
    pc,         \* the statement the script is about to execute
    fault,      \* the exception that ended the process, or "none"
    stream,     \* which random stream the bit generator realises
    entropy,    \* operating-system entropy seen by this process
    rng,        \* the generator: [seed, ctr]
    seg,        \* index into segments of the loop variable seg
    base, noise, amounts, outliers,   \* the loop body's arrays
    records,    \* list of [Segment, Amount] dicts
    df,         \* the DataFrame: a sequence of rows
    upper_cap,  \* Series: segment name -> quantile, or <<>> before line 44
    fig,        \* the current figure, or "none"
    ax,         \* the Axes returned by sns.boxplot, or "none"
    file,       \* chart.png on disk: << >> (absent) or << w, h >> in pixels
    writes,     \* how many times this process wrote chart.png
    again,      \* TRUE in the second of two runs of the script
    prev        \* what the first run left: "none" or [records, df, entropy]

vars == << pc, fault, stream, entropy, rng, seg, base, noise, amounts,
           outliers, records, df, upper_cap, fig, ax, file, writes,
           again, prev >>

(* ---- helpers ---- *)
Max(a, b) == IF a >= b THEN a ELSE b
Min(a, b) == IF a <= b THEN a ELSE b

\* the w-th output word of the bit generator seeded with s, for stream k
BitGen(k, s, w) == (((w + s + 1) * (w + (7 * k) + 3)) + (k * w)) % 1009

\* np.random.default_rng(seed)
default_rng(s) == [seed |-> s, ctr |-> 0]

\* mutant: the generator seeded from the process's entropy (default_rng())
SeedFromEntropy(e) == e

\* the seed the script passes to default_rng: the literal 42, whatever the
\* entropy of the process
SeedOf(e) == Seed

\* rng.lognormal(mean, sigma, size): strictly positive draws
lognormal(g, k, mean, sigma, size) ==
    [j \in 1..size |->
        Dollar * (1 + ((BitGen(k, g.seed, g.ctr + j) + sigma)
                           % (LogMax + (mean \div 10))))]

\* rng.normal(loc, scale, size): draws of either sign around loc
normal(g, k, loc, scale, size) ==
    [j \in 1..size |->
        Dollar * ((loc - NoiseMax)
                  + ((BitGen(k, g.seed, g.ctr + j) + scale)
                       % (2 * NoiseMax + 1)))]

advance(g, size) == [g EXCEPT !.ctr = @ + size]

\* mutant: the floor at zero instead of lo
clipAtZero(a, lo) == [j \in DOMAIN a |-> Max(a[j], 0)]

\* np.clip(a, lo, None)
clip(a, lo) == [j \in DOMAIN a |-> Max(a[j], lo)]

\* max(1, seg["n"] // 50)
outlier_count(s) == Max(1, (s.n) \div OutlierDivisor)

\* mutant: the outliers appended as extra samples
injectAppended(a, o, c) == a \o o

\* mutant: the outliers added to the last c elements
injectLast(a, o, c) ==
    [j \in DOMAIN a |->
        IF j > Len(a) - c THEN a[j] + o[j - (Len(a) - c)] ELSE a[j]]

\* amounts[:c] = amounts[:c] + outliers
inject(a, o, c) ==
    [j \in DOMAIN a |-> IF j <= c THEN a[j] + o[j] ELSE a[j]]

\* for a in amounts: records.append({"Segment": ..., "Purchase Amount ($)": a})
appendAll(recs, name, a) ==
    recs \o [j \in DOMAIN a |-> [Segment |-> name, Amount |-> a[j]]]

(* ---- quantile (numpy's linear method, as pandas calls it) ---- *)
\* the element at 0-based position i of the sorted copy of sequence a
kth(a, i) ==
    LET vals == { a[j] : j \in DOMAIN a } IN
    CHOOSE v \in vals :
        /\ Cardinality({ j \in DOMAIN a : a[j] < v }) <= i
        /\ Cardinality({ j \in DOMAIN a : a[j] <= v }) > i

\* numpy _lerp(a, b, t) with t = tn / QDen: a + (b-a)*t, and for t >= 0.5
\* b - (b-a)*(1-t)
lerp(a, b, tn) ==
    IF 2 * tn >= QDen
    THEN b - ((b - a) * (QDen - tn)) \div QDen
    ELSE a + ((b - a) * tn) \div QDen

\* Series.quantile(0.995): virtual index 0.995 * (n - 1)
quantile(a) ==
    LET n  == Len(a)
        h  == QNum * (n - 1)
        i  == h \div QDen
        tn == h % QDen
    IN  lerp(kth(a, i), kth(a, Min(i + 1, n - 1)), tn)

\* the amounts of the rows labelled name, in row order (one groupby group)
group(rows, name) ==
    LET sel == SelectSeq(rows, LAMBDA r : r.Segment = name)
    IN  [j \in DOMAIN sel |-> sel[j].Amount]

\* mutant: one quantile of the whole column, without the groupby
frameQuantile(rows) ==
    [name \in { rows[r].Segment : r \in DOMAIN rows } |->
        quantile([r \in DOMAIN rows |-> rows[r].Amount])]

\* df.groupby("Segment")[amount].quantile(0.995): one entry per label present
groupQuantile(rows) ==
    [name \in { rows[r].Segment : r \in DOMAIN rows } |->
        quantile(group(rows, name))]

\* df["Cap"] = df["Segment"].map(upper_cap)
mapCap(rows, caps) ==
    [r \in DOMAIN rows |->
        [Segment |-> rows[r].Segment, Amount |-> rows[r].Amount,
         Cap |-> caps[rows[r].Segment]]]

\* mutant: the comparison reversed
whereFlipped(x, c) == IF x < c THEN c ELSE x

\* np.where(amount > cap, cap, amount), element by element
where(x, c) == IF x > c THEN c ELSE x

\* df[amount] = np.where(df[amount] > df["Cap"], df["Cap"], df[amount])
capRows(rows) ==
    [r \in DOMAIN rows |->
        [rows[r] EXCEPT !.Amount = where(rows[r].Amount, rows[r].Cap)]]

\* df.drop(columns=["Cap"])
dropCap(rows) ==
    [r \in DOMAIN rows |->
        [Segment |-> rows[r].Segment, Amount |-> rows[r].Amount]]

(* ---- the process ---- *)
NoArray == << >>

Init ==
    /\ pc = "style"
    /\ fault = "none"
    /\ stream \in 0..MaxStream
    /\ entropy \in 0..MaxEntropy
    /\ rng = "none"
    /\ seg = 0
    /\ base = NoArray /\ noise = NoArray
    /\ amounts = NoArray /\ outliers = NoArray
    /\ records = << >>
    /\ df = << >>
    /\ upper_cap = << >>
    /\ fig = "none"
    /\ ax = "none"
    /\ file = << >>
    /\ writes = 0
    /\ again = FALSE
    /\ prev = "none"

\* mutant: the exception swallowed, the process still at the statement
OnErrorResume(p) == p

\* where an exception raised by the statement at p leaves the process: the
\* script has no try/except, so the interpreter exits
OnError(p) == "crashed"

\* lines 7-8: seaborn style and context (no effect on the table)
SetStyle ==
    /\ pc = "style" /\ pc' = "seed"
    /\ UNCHANGED << fault, stream, entropy, rng, seg, base, noise, amounts,
                    outliers, records, df, upper_cap, fig, ax, file, writes,
                    again, prev >>

\* line 11
SeedRng ==
    /\ pc = "seed" /\ pc' = "records"
    /\ rng' = default_rng(SeedOf(entropy))
    /\ UNCHANGED << fault, stream, entropy, seg, base, noise, amounts,
                    outliers, records, df, upper_cap, fig, ax, file, writes,
                    again, prev >>

\* line 23 and the first iteration of line 24
NewRecords ==
    /\ pc = "records" /\ pc' = "base"
    /\ records' = << >>
    /\ seg' = 1
    /\ UNCHANGED << fault, stream, entropy, rng, base, noise, amounts,
                    outliers, df, upper_cap, fig, ax, file, writes,
                    again, prev >>

\* line 26
DrawBase ==
    /\ pc = "base" /\ pc' = "noise"
    /\ LET s == segments[seg] IN
         /\ base' = lognormal(rng, stream, s.mu, s.sigma, s.n)
         /\ rng' = advance(rng, s.n)
    /\ UNCHANGED << fault, stream, entropy, seg, noise, amounts, outliers,
                    records, df, upper_cap, fig, ax, file, writes,
                    again, prev >>

\* line 29
DrawNoise ==
    /\ pc = "noise" /\ pc' = "clip"
    /\ LET s == segments[seg] IN
         /\ noise' = normal(rng, stream, 0, NoiseScale, s.n)
         /\ rng' = advance(rng, s.n)
    /\ UNCHANGED << fault, stream, entropy, seg, base, amounts, outliers,
                    records, df, upper_cap, fig, ax, file, writes,
                    again, prev >>

\* line 30
ClipAmounts ==
    /\ pc = "clip" /\ pc' = "outliers"
    /\ amounts' = clip([j \in DOMAIN base |-> base[j] + noise[j]], Dollar)
    /\ UNCHANGED << fault, stream, entropy, rng, seg, base, noise, outliers,
                    records, df, upper_cap, fig, ax, file, writes,
                    again, prev >>

\* lines 33-34
DrawOutliers ==
    /\ pc = "outliers" /\ pc' = "inject"
    /\ LET s == segments[seg]
           c == outlier_count(s)
       IN  /\ outliers' = lognormal(rng, stream, s.mu + 11, s.sigma + 30, c)
           /\ rng' = advance(rng, c)
    /\ UNCHANGED << fault, stream, entropy, seg, base, noise, amounts,
                    records, df, upper_cap, fig, ax, file, writes,
                    again, prev >>

\* line 35
InjectOutliers ==
    /\ pc = "inject" /\ pc' = "append"
    /\ amounts' = inject(amounts, outliers, outlier_count(segments[seg]))
    /\ UNCHANGED << fault, stream, entropy, rng, seg, base, noise, outliers,
                    records, df, upper_cap, fig, ax, file, writes,
                    again, prev >>

\* lines 37-38, then line 24 again
AppendRecords ==
    /\ pc = "append"
    /\ records' = appendAll(records, segments[seg].name, amounts)
    /\ IF seg < Len(segments)
         THEN seg' = seg + 1 /\ pc' = "base"
         ELSE seg' = seg /\ pc' = "frame"
    /\ UNCHANGED << fault, stream, entropy, rng, base, noise, amounts,
                    outliers, df, upper_cap, fig, ax, file, writes,
                    again, prev >>

\* line 40
MakeFrame ==
    /\ pc = "frame" /\ pc' = "quantile"
    /\ df' = records
    /\ UNCHANGED << fault, stream, entropy, rng, seg, base, noise, amounts,
                    outliers, records, upper_cap, fig, ax, file, writes,
                    again, prev >>

\* line 44
GroupQuantile ==
    /\ pc = "quantile" /\ pc' = "map"
    /\ upper_cap' = groupQuantile(df)
    /\ UNCHANGED << fault, stream, entropy, rng, seg, base, noise, amounts,
                    outliers, records, df, fig, ax, file, writes,
                    again, prev >>

\* line 45
MapCap ==
    /\ pc = "map" /\ pc' = "where"
    /\ df' = mapCap(df, upper_cap)
    /\ UNCHANGED << fault, stream, entropy, rng, seg, base, noise, amounts,
                    outliers, records, upper_cap, fig, ax, file, writes,
                    again, prev >>

\* lines 46-48
ApplyCap ==
    /\ pc = "where" /\ pc' = "drop"
    /\ df' = capRows(df)
    /\ UNCHANGED << fault, stream, entropy, rng, seg, base, noise, amounts,
                    outliers, records, upper_cap, fig, ax, file, writes,
                    again, prev >>

\* line 49
DropCap ==
    /\ pc = "drop" /\ pc' = "figure"
    /\ df' = dropCap(df)
    /\ UNCHANGED << fault, stream, entropy, rng, seg, base, noise, amounts,
                    outliers, records, upper_cap, fig, ax, file, writes,
                    again, prev >>

(* ---- rendering ---- *)
\* sns.color_palette("Blues", n_colors=n): n shades, light to dark
color_palette(n) == [i \in 1..n |-> i]

palette == color_palette(Len(order))

\* the labels of rows in order of first appearance (seaborn's default
\* category order for a column of strings)
appearance(rows) ==
    LET names == { rows[r].Segment : r \in DOMAIN rows }
        firstOf(nm) == CHOOSE r \in DOMAIN rows :
                          /\ rows[r].Segment = nm
                          /\ \A q \in 1..(r - 1) : rows[q].Segment # nm
        before(nm) == { o \in names : firstOf(o) < firstOf(nm) }
    IN  [i \in 1..Cardinality(names) |->
            CHOOSE nm \in names : Cardinality(before(nm)) = i - 1]

\* the Axes with one box position per name of names, in that order
drawBoxes(rows, names, pal) ==
    [ xticklabels |-> names,
      boxes       |-> [i \in DOMAIN names |->
                         [label |-> names[i],
                          data  |-> group(rows, names[i]),
                          color |-> pal[i]]],
      title  |-> "", xlabel |-> "Segment", ylabel |-> "Purchase Amount ($)",
      yticklabels |-> "auto",
      despined |-> FALSE ]

\* mutant: the order argument ignored
boxplotDataOrder(rows, ord, pal) == drawBoxes(rows, appearance(rows), pal)

\* sns.boxplot(data, x="Segment", y=amount, order=ord, palette=pal): the
\* names of ord, or the data's own order when ord is None
boxplot(rows, ord, pal) ==
    drawBoxes(rows, IF ord = "None" THEN appearance(rows) ELSE ord, pal)

\* the largest amount drawn on the axes
top(a) ==
    LET drawn == UNION { { a.boxes[i].data[j] : j \in DOMAIN a.boxes[i].data }
                         : i \in DOMAIN a.boxes }
    IN  CHOOSE m \in drawn : \A x \in drawn : x <= m

\* ax.get_yticks(): evenly spaced ticks from 0 that cover the data
get_yticks(a) ==
    LET m    == top(a)
        step == Dollar * Max(1, ((m \div Dollar) + 3) \div 4)
    IN  [i \in 1..((m \div step) + 2) |-> (i - 1) * step]

\* f"${int(t):,}" if t >= 1 else f"${t:.2f}"
tickLabel(t) ==
    IF t >= Dollar
    THEN [style |-> "int", dollars |-> t \div Dollar]
    ELSE [style |-> "fixed2", cents |-> (t * 100) \div Dollar]

\* the pixel size of the image savefig writes: the figure at dpi, or, with
\* bbox_inches="tight", the artists' bounding box ext padded by pad_inches
imageSize(f, ext, dpi, bbox) ==
    LET inches == IF bbox = "tight"
                  THEN << ext[1] + (2 * PadInches), ext[2] + (2 * PadInches) >>
                  ELSE f.figsize
    IN  << (inches[1] * dpi) \div 10, (inches[2] * dpi) \div 10 >>

\* line 58
NewFigure ==
    /\ pc = "figure" /\ pc' = "boxplot"
    /\ fig' = [figsize |-> << FigSide, FigSide >>, tight |-> FALSE]
    /\ UNCHANGED << fault, stream, entropy, rng, seg, base, noise, amounts,
                    outliers, records, df, upper_cap, ax, file, writes,
                    again, prev >>

\* mutant: the boxes drawn from the records instead of the capped table
BoxPlotRecords ==
    /\ pc = "boxplot" /\ pc' = "titles"
    /\ ax' = boxplot(records, order, palette)
    /\ UNCHANGED << fault, stream, entropy, rng, seg, base, noise, amounts,
                    outliers, records, df, upper_cap, fig, file, writes,
                    again, prev >>

\* lines 61-73
BoxPlot ==
    /\ pc = "boxplot" /\ pc' = "titles"
    /\ ax' = boxplot(df, order, palette)
    /\ UNCHANGED << fault, stream, entropy, rng, seg, base, noise, amounts,
                    outliers, records, df, upper_cap, fig, file, writes,
                    again, prev >>

\* lines 76-78
SetTitles ==
    /\ pc = "titles" /\ pc' = "ticks"
    /\ ax' = [ax EXCEPT
                !.title  = "Distribution of Purchase Amounts by Customer Segment",
                !.xlabel = "Customer Segment",
                !.ylabel = "Purchase Amount ($)"]
    /\ UNCHANGED << fault, stream, entropy, rng, seg, base, noise, amounts,
                    outliers, records, df, upper_cap, fig, file, writes,
                    again, prev >>

\* lines 81-82
SetTickLabels ==
    /\ pc = "ticks" /\ pc' = "despine"
    /\ LET y_ticks == get_yticks(ax) IN
         ax' = [ax EXCEPT !.yticklabels =
                   [i \in DOMAIN y_ticks |-> tickLabel(y_ticks[i])]]
    /\ UNCHANGED << fault, stream, entropy, rng, seg, base, noise, amounts,
                    outliers, records, df, upper_cap, fig, file, writes,
                    again, prev >>

\* line 85
Despine ==
    /\ pc = "despine" /\ pc' = "layout"
    /\ ax' = [ax EXCEPT !.despined = TRUE]
    /\ UNCHANGED << fault, stream, entropy, rng, seg, base, noise, amounts,
                    outliers, records, df, upper_cap, fig, file, writes,
                    again, prev >>

\* line 88
TightLayout ==
    /\ pc = "layout" /\ pc' = "save"
    /\ fig' = [fig EXCEPT !.tight = TRUE]
    /\ UNCHANGED << fault, stream, entropy, rng, seg, base, noise, amounts,
                    outliers, records, df, upper_cap, ax, file, writes,
                    again, prev >>

\* line 89: the extent of the drawn artists (title, tick labels, spines) is
\* what the renderer measures when savefig asks for the tight bounding box
SaveFig ==
    /\ pc = "save" /\ pc' = "close"
    /\ \E ew, eh \in (FigSide - MaxBleed)..(FigSide + MaxBleed) :
           file' = imageSize(fig, << ew, eh >>, SaveDpi, "tight")
    /\ writes' = writes + 1
    /\ UNCHANGED << fault, stream, entropy, rng, seg, base, noise, amounts,
                    outliers, records, df, upper_cap, fig, ax,
                    again, prev >>

\* line 90
CloseFig ==
    /\ pc = "close" /\ pc' = "done"
    /\ fig' = "none"
    /\ UNCHANGED << fault, stream, entropy, rng, seg, base, noise, amounts,
                    outliers, records, df, upper_cap, ax, file, writes,
                    again, prev >>

\* any statement may raise; nothing in the script catches it
Raise ==
    /\ pc \notin { "done", "crashed" }
    /\ fault' = pc
    /\ pc' = OnError(pc)
    /\ UNCHANGED << stream, entropy, rng, seg, base, noise, amounts,
                    outliers, records, df, upper_cap, fig, ax, file, writes,
                    again, prev >>

Next ==
    \/ SetStyle \/ SeedRng \/ NewRecords
    \/ DrawBase \/ DrawNoise \/ ClipAmounts
    \/ DrawOutliers \/ InjectOutliers \/ AppendRecords
    \/ MakeFrame \/ GroupQuantile \/ MapCap \/ ApplyCap \/ DropCap
    \/ NewFigure \/ BoxPlot \/ SetTitles \/ SetTickLabels \/ Despine
    \/ TightLayout \/ SaveFig \/ CloseFig
    \/ Raise

Spec == Init /\ [][Next]_vars

\* the script is run a second time, as a new process in a clean working
\* directory: same program, same bit generator, fresh entropy
RunAgain ==
    /\ pc = "done" /\ ~again
    /\ again' = TRUE
    /\ prev' = [records |-> records, df |-> df, entropy |-> entropy]
    /\ pc' = "style"
    /\ entropy' \in 0..MaxEntropy
    /\ rng' = "none" /\ seg' = 0
    /\ base' = NoArray /\ noise' = NoArray
    /\ amounts' = NoArray /\ outliers' = NoArray
    /\ records' = << >> /\ df' = << >> /\ upper_cap' = << >>
    /\ fig' = "none" /\ ax' = "none"
    /\ file' = << >> /\ writes' = 0
    /\ UNCHANGED << fault, stream >>

NextTwice == Next \/ RunAgain

SpecTwice == Init /\ [][NextTwice]_vars

(* ---- positions of the statements, in program order ---- *)
\* the statement the process is at, or was at when it raised
at == IF pc = "crashed" THEN fault ELSE pc

LoopPcs == << "base", "noise", "clip", "outliers", "inject", "append" >>
TailPcs == << "frame", "quantile", "map", "where", "drop", "figure",
              "boxplot", "titles", "ticks", "despine", "layout", "save",
              "close", "done" >>

IndexIn(sq, x) == CHOOSE i \in DOMAIN sq : sq[i] = x

\* how many statements have completed when the process is at p in
\* iteration sg of the loop
Pos(p, sg) ==
    IF p = "style" THEN 0
    ELSE IF p = "seed" THEN 1
    ELSE IF p = "records" THEN 2
    ELSE IF \E i \in DOMAIN LoopPcs : LoopPcs[i] = p
         THEN 2 + (Len(LoopPcs) * (sg - 1)) + IndexIn(LoopPcs, p)
    ELSE 2 + (Len(LoopPcs) * Len(segments)) + IndexIn(TailPcs, p)

Here == Pos(at, seg)

\* the table exists (line 40 has run)
Framed == Here >= Pos("quantile", seg)
\* lines 46-48 have run
Capped == Here >= Pos("drop", seg)
\* sns.boxplot has run
Drawn == Here >= Pos("titles", seg)

SegNames == { segments[i].name : i \in DOMAIN segments }

\* the rows of table rows labelled nm
RowsOf(rows, nm) == { r \in DOMAIN rows : rows[r].Segment = nm }

(* ---- C1 ---- *)
\* C1: capping never increases an amount; a row changes only if its amount
\* before capping was strictly above its own segment's 0.995 quantile of the
\* amounts before capping, and then it becomes exactly that quantile; every
\* row at or below the quantile is unchanged.
C1_CapOnlyLowers ==
    Capped =>
        \A caps \in { [nm \in SegNames |-> quantile(group(records, nm))] } :
            \A r \in DOMAIN df :
                LET before == records[r].Amount
                    after  == df[r].Amount
                    c      == caps[records[r].Segment]
                IN  /\ after <= before
                    /\ before > c => after = c
                    /\ before <= c => after = before

\* a finished run in which one row was lowered to its cap and another row of
\* the same segment was left alone
C1_Witness ==
    /\ pc = "done"
    /\ \E r, q \in DOMAIN df :
          /\ df[r].Segment = df[q].Segment
          /\ df[r].Amount < records[r].Amount
          /\ df[q].Amount = records[q].Amount

(* ---- C2 ---- *)
\* C2: from the floor step on, every amount is at least one dollar: in the
\* loop's array, in the records, in the table before and after capping, and
\* in the data of the boxes drawn.
C2_AtLeastOne ==
    /\ \A j \in DOMAIN amounts : amounts[j] >= Dollar
    /\ \A r \in DOMAIN records : records[r].Amount >= Dollar
    /\ \A r \in DOMAIN df : df[r].Amount >= Dollar
    /\ Drawn =>
          \A i \in DOMAIN ax.boxes :
              \A j \in DOMAIN ax.boxes[i].data : ax.boxes[i].data[j] >= Dollar

\* a finished run whose last segment had a row with base + noise below one
\* dollar, outside the outlier rows, that reached the table as one dollar
C2_Witness ==
    /\ pc = "done"
    /\ \E j \in DOMAIN amounts :
          /\ j > outlier_count(segments[seg])
          /\ base[j] + noise[j] < Dollar
          /\ df[(Len(df) - Len(amounts)) + j].Amount = Dollar

(* ---- C3 ---- *)
\* C3: the table has 400 + 400 + 350 + 250 = 1400 rows, exactly n of them
\* labelled with each segment's name; injection leaves the loop's array at n
\* elements, and capping keeps every row and its label.
C3_RowCount ==
    /\ (seg >= 1 /\ Here >= Pos("outliers", seg)) =>
          Len(amounts) = segments[seg].n
    /\ Framed =>
          /\ Len(records) = 1400
          /\ Len(df) = 1400
          /\ NValue + NMid + NPremium + NVIP = 1400
          /\ \A i \in DOMAIN segments :
                Cardinality(RowsOf(df, segments[i].name)) = segments[i].n
          /\ \A r \in DOMAIN df : df[r].Segment = records[r].Segment

\* a finished run in which capping lowered a row and injection raised one
C3_Witness ==
    /\ pc = "done"
    /\ Len(df) = 1400
    /\ \E r \in DOMAIN df : df[r].Amount < records[r].Amount
    /\ amounts[1] > Max(base[1] + noise[1], Dollar)

(* ---- C4 ---- *)
\* C4: the file written by the save step is square, 512 x 512 pixels,
\* whatever was drawn.
C4_Image512 ==
    file # << >> => file = << 512, 512 >>

(* ---- C5 ---- *)
\* C5: the axis shows the labels Value, Mid, Premium, VIP in that order, with
\* exactly one non-empty box per segment; the same axis results from the
\* table with its rows in reverse order.
Reverse(rows) == [r \in DOMAIN rows |-> rows[(Len(rows) + 1) - r]]

C5_DisplayOrder ==
    Drawn =>
        /\ ax.xticklabels = << "Value", "Mid", "Premium", "VIP" >>
        /\ Len(ax.boxes) = 4
        /\ \A i \in DOMAIN ax.boxes :
              /\ ax.boxes[i].label = ax.xticklabels[i]
              /\ ax.boxes[i].data # << >>
              /\ Len(ax.boxes[i].data) = Cardinality(RowsOf(df, ax.xticklabels[i]))
        /\ \A rev \in { Reverse(df) } :
              boxplot(rev, order, palette).xticklabels = ax.xticklabels

\* a finished run that drew the boxes from a table in which capping had
\* lowered a row
C5_Witness ==
    /\ pc = "done"
    /\ Len(ax.boxes) = 4
    /\ \E r \in DOMAIN df : df[r].Amount < records[r].Amount

(* ---- C6 ---- *)
\* C6: the second run of the script builds the same table as the first, row
\* for row, before capping (records) and after capping (df), although the
\* two processes may differ in entropy and in what the renderer measures.
C6_SameTable ==
    again =>
        /\ Framed => records = prev.records
        /\ pc = "done" => df = prev.df

\* the second run has finished under entropy different from the first run's
C6_Witness ==
    /\ again
    /\ pc = "done"
    /\ entropy # prev.entropy
    /\ Len(df) = 1400

(* ---- C7 ---- *)
\* C7: a statement that raises is the last thing the process does: the
\* process is terminated at once with that statement's effect absent, and no
\* step follows (no handler, no retry, no later statement).
C7_FaultTerminates ==
    [][ /\ fault' # "none" => pc' = "crashed"
        /\ fault # "none" => UNCHANGED vars
        /\ (fault = "none" /\ fault' # "none") =>
              /\ fault' = pc
              /\ UNCHANGED << records, df, fig, ax, file, writes >> ]_vars

\* the save step failed: no file, and the process is dead
C7_Witness ==
    /\ pc = "crashed"
    /\ fault = "save"
    /\ file = << >>
    /\ writes = 0
    /\ Len(df) = 1400

(* ---- C8 ---- *)
\* C8: every step advances the process by exactly one statement, so each
\* stage runs once and in program order; all four segments are in the
\* records before the table is made and capped; the boxes are drawn from the
\* capped table; the file is written once, by the save step; and after the
\* capping step no amount of the table changes.
AmountsOf(rows) == [r \in DOMAIN rows |-> rows[r].Amount]

C8_StateOrder ==
    /\ Framed => Len(records) = NValue + NMid + NPremium + NVIP
    /\ Drawn =>
          /\ Capped
          /\ \A i \in DOMAIN ax.boxes :
                ax.boxes[i].data = group(df, ax.boxes[i].label)
          /\ \A r \in DOMAIN df :
                df[r].Amount = Min(records[r].Amount, upper_cap[df[r].Segment])
    /\ writes <= 1
    /\ writes = 1 <=> Here >= Pos("close", seg)
    /\ pc = "done" => file # << >>

C8_StageOrder ==
    /\ []C8_StateOrder
    /\ [][ /\ pc' # "crashed" => Pos(pc', seg') = Pos(pc, seg) + 1
           /\ pc' = "crashed" => Pos(at', seg') = Pos(pc, seg)
           /\ Capped => AmountsOf(df') = AmountsOf(df) ]_vars

\* a finished run: one write, boxes drawn from a table with a capped row
C8_Witness ==
    /\ pc = "done"
    /\ writes = 1
    /\ \E r \in DOMAIN df : df[r].Amount < records[r].Amount

(* ---- C9 ---- *)
\* C9: the floor is applied to base + noise; injection then adds a strictly
\* positive outlier to exactly the first max(1, n // 50) elements (8, 8, 7, 5
\* for Value, Mid, Premium, VIP), each of which strictly increases; every
\* other element keeps its floored value and the array keeps its length.
Floored(j) == Max(base[j] + noise[j], Dollar)

C9_Injection ==
    /\ at \in { "outliers", "inject" } =>
          /\ DOMAIN amounts = 1..segments[seg].n
          /\ \A j \in DOMAIN amounts : amounts[j] = Floored(j)
    /\ at = "append" =>
          LET c == << 8, 8, 7, 5 >>[seg] IN
          /\ c = Max(1, segments[seg].n \div 50)
          /\ Len(outliers) = c
          /\ DOMAIN amounts = 1..segments[seg].n
          /\ \A j \in DOMAIN amounts :
                IF j <= c
                THEN /\ outliers[j] > 0
                     /\ amounts[j] = Floored(j) + outliers[j]
                     /\ amounts[j] > Floored(j)
                ELSE amounts[j] = Floored(j)

\* the Premium segment after injection: 7 outliers, and a row whose noise
\* took it below the floor before its outlier was added
C9_Witness ==
    /\ pc = "append"
    /\ seg = 3
    /\ Len(outliers) = 7
    /\ \E j \in 1..7 : base[j] + noise[j] < Dollar /\ amounts[j] > Dollar

(* ---- C10 ---- *)
\* C10: when capping has just run, in each segment: at most 2 rows were lowered,
\* each of them ranked above position 0.995 * (n - 1) of the segment; every
\* amount is at most the segment's cap; amounts keep their order; and the
\* capped segment is what capping the segment's rows alone gives.
Alone(nm) == SelectSeq(records, LAMBDA r : r.Segment = nm)

C10_BoundedOutliers ==
    at \in { "drop", "figure" } =>
        \A nm \in SegNames :
            \A mine \in { RowsOf(df, nm) } :
            \A cap \in { quantile(group(records, nm)) } :
            \A alone \in { Alone(nm) } :
            \A own \in { groupQuantile(alone) } :
            \A solo \in { capRows(mapCap(alone, own)) } :
                LET n       == Cardinality(mine)
                    low     == { r \in mine : df[r].Amount < records[r].Amount }
                    pre     == { records[r].Amount : r \in mine }
                    post(v) == { df[r].Amount :
                                   r \in { q \in mine : records[q].Amount = v } }
                IN  /\ Cardinality(low) <= 2
                    /\ \A r \in low :
                          Cardinality({ q \in mine :
                                          records[q].Amount < records[r].Amount })
                              * QDen > QNum * (n - 1)
                    /\ \A r \in mine : df[r].Amount <= cap
                    \* a <= b before implies a' <= b' after, for all rows
                    \* with amounts a, b before and a', b' after
                    /\ \A v, w \in pre :
                          v <= w => \A x \in post(v), y \in post(w) : x <= y
                    /\ upper_cap[nm] = cap
                    /\ group(df, nm) = [j \in DOMAIN solo |-> solo[j].Amount]

\* right after capping: one segment with 2 rows lowered, another with 1
C10_Witness ==
    /\ pc = "drop"
    /\ \E nm \in SegNames :
          Cardinality({ r \in RowsOf(df, nm) :
                          df[r].Amount < records[r].Amount }) = 2
    /\ \E nm \in SegNames :
          Cardinality({ r \in RowsOf(df, nm) :
                          df[r].Amount < records[r].Amount }) = 1
====
